---- MODULE Spec2Model ----
(***************************************************************************)
(* Expense Tracker (src/main.py): one SQLite table `expenses` and the      *)
(* handlers add_expense, list_expenses, get_summary, the two resource      *)
(* reads and init_db.                                                      *)
(*                                                                         *)
(* Encoding of values.                                                     *)
(*  - An Optional[...] argument or a nullable column is a sequence:        *)
(*    <<>> is None / NULL, <<v>> is the value v.  Python truthiness        *)
(*    (`if category:`, `date or ...`, `sub or 'N/A'`) is Truthy below.     *)
(*  - A date is TEXT compared by SQLite bytewise.  Any finite set of       *)
(*    strings with that total order embeds in the integers: 0 is the       *)
(*    empty string "" (the least string), 1, 2, ... are dates in order.    *)
(*  - An amount is a whole number of currency units (the code takes a      *)
(*    float; sums are exact here).                                         *)
(*  - A text result is the structure it renders: its kind ("ok", "none",   *)
(*    "table", "report", "error") and the rows or lines it prints; a       *)
(*    Python exception that leaves the handler is kind "fault".            *)
(***************************************************************************)
EXTENDS Integers, Sequences, FiniteSets

VARIABLES
  table,     \* rows of `expenses`, in insertion order
  seq,       \* sqlite_sequence: the largest id AUTOINCREMENT has handed out
  ret,       \* the outcome of the call started last, with its arguments
             \* ("pending" while get_summary is between its two queries)
  call,      \* a get_summary call between its two queries, or NoCall
  returned   \* history: the ids returned by successful add_expense calls

vars == <<table, seq, ret, call, returned>>

----------------------------------------------------------------------------
\* Bounds

MaxRows == 2      \* add_expense calls that insert
MaxStored == 21   \* rows a store file left by an earlier run may hold

\* Program constants
DefaultLimit == 20   \* list_expenses(limit: int = 20)
EmptyDate == 0       \* the date string ""

None == <<>>
Some(v) == <<v>>

\* Python truthiness of an Optional[str]: None and "" are falsy.
Truthy(x) == x # None /\ x[1] # ""

\* The same for a date argument (a string, encoded as a number).
TruthyDate(x) == x # None /\ x[1] # EmptyDate

\* `x or d` for a string, and for a date
OrElse(x, d) == IF Truthy(x) THEN x[1] ELSE d
OrElseDate(x, d) == IF TruthyDate(x) THEN x[1] ELSE d

Dates == {1, 2}
CategoryOrder == <<"Food", "Transport">>   \* in BINARY collation order
CatRank(c) == CHOOSE i \in 1..Len(CategoryOrder) : CategoryOrder[i] = c
SubOrder == <<"Grocery", "Restaurant">>
SubRank(s) == CHOOSE i \in 1..Len(SubOrder) : SubOrder[i] = s

\* str.upper()
upper(c) ==
  CASE c = "Food" -> "FOOD"
    [] c = "Transport" -> "TRANSPORT"
    [] OTHER -> c

Min(a, b) == IF a <= b THEN a ELSE b
Max(a, b) == IF a >= b THEN a ELSE b

Rows(tbl) == {tbl[i] : i \in 1..Len(tbl)}

RECURSIVE SumAmount(_)
\* SQL SUM(amount) over a set of rows (distinct by id); 0 stands for NULL `or 0`
SumAmount(S) ==
  IF S = {} THEN 0
  ELSE LET r == CHOOSE x \in S : TRUE IN r.amount + SumAmount(S \ {r})

MaxId(tbl) == IF tbl = <<>> THEN 0 ELSE tbl[Len(tbl)].id

----------------------------------------------------------------------------
\* add_expense

\* faulty variant: `if amount < 0`
RejectedNegativeOnly(amount) == amount < 0
\* `if amount <= 0`
Rejected(amount) == amount <= 0

\* faulty variant: the last id handed out is handed out again
NextIdReused(tbl, s) == IF s = 0 THEN 1 ELSE s
\* INTEGER PRIMARY KEY AUTOINCREMENT: one more than the largest id ever used
NextId(tbl, s) == Max(s, MaxId(tbl)) + 1

add_expense(amount, category, subcategory, note, date, today, fail) ==
  /\ UNCHANGED call
  /\ \/ /\ Rejected(amount)
        /\ ret' = [op |-> "add", kind |-> "error", why |-> "validation",
                   amount |-> amount]
        /\ UNCHANGED <<table, seq, returned>>
     \/ /\ ~Rejected(amount)
        /\ fail
        \* the exception leaves the `with` block: the insert is rolled back
        /\ ret' = [op |-> "add", kind |-> "error", why |-> "database",
                   amount |-> amount]
        /\ UNCHANGED <<table, seq, returned>>
     \/ /\ ~Rejected(amount)
        /\ ~fail
        /\ Len(returned) < MaxRows
        /\ LET record_date == OrElseDate(date, today)
               expense_id == NextId(table, seq)
           IN /\ table' = Append(table,
                    [id |-> expense_id, amount |-> amount, date |-> record_date,
                     category |-> category, subcategory |-> subcategory,
                     note |-> note])
              /\ seq' = expense_id
              /\ ret' = [op |-> "add", kind |-> "ok", id |-> expense_id,
                         category |-> category,
                         subcategory |-> OrElse(subcategory, "N/A"),
                         amount |-> amount, date |-> record_date]
              /\ returned' = Append(returned, expense_id)

----------------------------------------------------------------------------
\* list_expenses

\* faulty variant: the filters joined by OR
MatchesAny(r, category, start_date, end_date) ==
  \/ Truthy(category) /\ r.category = category[1]
  \/ TruthyDate(start_date) /\ r.date >= start_date[1]
  \/ TruthyDate(end_date) /\ r.date <= end_date[1]
  \/ ~Truthy(category) /\ ~TruthyDate(start_date) /\ ~TruthyDate(end_date)
\* WHERE 1=1 [AND category = ?] [AND date >= ?] [AND date <= ?], a clause for
\* each truthy argument
Matches(r, category, start_date, end_date) ==
  /\ Truthy(category) => r.category = category[1]
  /\ TruthyDate(start_date) => r.date >= start_date[1]
  /\ TruthyDate(end_date) => r.date <= end_date[1]

\* faulty variant: ORDER BY date DESC, id ASC
BeforeIdAsc(a, b) == a.date > b.date \/ (a.date = b.date /\ a.id < b.id)
\* ORDER BY date DESC, id DESC: a comes before b
Before(a, b) == a.date > b.date \/ (a.date = b.date /\ a.id > b.id)

RECURSIVE OrderBy(_)
OrderBy(S) ==
  IF S = {} THEN <<>>
  ELSE LET f == CHOOSE x \in S : \A y \in S \ {x} : Before(x, y)
       IN <<f>> \o OrderBy(S \ {f})

\* faulty variant: one row too many
LimitOneMore(s, n) == IF n < 0 THEN s ELSE SubSeq(s, 1, Min(n + 1, Len(s)))
\* LIMIT ?: a negative limit is no limit in SQLite
Limit(s, n) == IF n < 0 THEN s ELSE SubSeq(s, 1, Min(n, Len(s)))

\* one printed line of the table: `sub or 'N/A'`, `note or ''`
ListRow(r) ==
  [id |-> r.id, date |-> r.date, category |-> r.category,
   subcategory |-> OrElse(r.subcategory, "N/A"), amount |-> r.amount,
   note |-> OrElse(r.note, "")]

list_expenses(category, start_date, end_date, limit, fail) ==
  /\ UNCHANGED <<table, seq, call, returned>>
  /\ LET args == [category |-> category, start_date |-> start_date,
                  end_date |-> end_date, limit |-> limit]
         rows == Limit(OrderBy({r \in Rows(table) :
                    Matches(r, category, start_date, end_date)}), limit)
     IN \/ /\ fail
           /\ ret' = [op |-> "list", kind |-> "error"]
        \/ /\ ~fail
           /\ rows = <<>>
           /\ ret' = [op |-> "list", kind |-> "none", args |-> args]
        \/ /\ ~fail
           /\ rows # <<>>
           /\ ret' = [op |-> "list", kind |-> "table", args |-> args,
                      rows |-> [i \in 1..Len(rows) |-> ListRow(rows[i])]]

----------------------------------------------------------------------------
\* get_summary

\* faulty variant: exclusive bounds
InRangeExclusive(r, start_date, end_date) ==
  /\ TruthyDate(start_date) => r.date > start_date[1]
  /\ TruthyDate(end_date) => r.date < end_date[1]
\* WHERE 1=1 [AND date >= ?] [AND date <= ?]
InRange(r, start_date, end_date) ==
  /\ TruthyDate(start_date) => r.date >= start_date[1]
  /\ TruthyDate(end_date) => r.date <= end_date[1]

\* SELECT category, subcategory, SUM(amount), COUNT(*) ... GROUP BY category,
\* subcategory: one row per (category, subcategory) pair present; NULL is a
\* subcategory value of its own
Groups(M) ==
  {[category |-> k[1], subcategory |-> k[2],
    sum |-> SumAmount({r \in M : r.category = k[1] /\ r.subcategory = k[2]}),
    count |-> Cardinality({r \in M : r.category = k[1] /\ r.subcategory = k[2]})]
   : k \in {<<r.category, r.subcategory>> : r \in M}}

\* ORDER BY category, SUM(amount) DESC: every order of the groups the sort keys
\* allow (SQL leaves the order of rows with equal keys open)
GroupOrders(G) ==
  {s \in [1..Cardinality(G) -> G] :
     /\ \A i, j \in DOMAIN s : i # j => s[i] # s[j]
     /\ \A i, j \in DOMAIN s : i < j =>
          \/ CatRank(s[i].category) < CatRank(s[j].category)
          \/ /\ s[i].category = s[j].category
             /\ s[i].sum >= s[j].sum}

RECURSIVE ReportLines(_, _)
\* the loop over the group rows: a heading when the category changes, printed
\* with that row's own sum and count, and a line for a truthy subcategory
ReportLines(rows, current_cat) ==
  IF rows = <<>> THEN <<>>
  ELSE LET g == Head(rows)
           heading == IF Some(g.category) # current_cat
                      THEN <<[kind |-> "category", name |-> upper(g.category),
                              total |-> g.sum, entries |-> g.count]>>
                      ELSE <<>>
           sub == IF Truthy(g.subcategory)
                  THEN <<[kind |-> "sub", name |-> g.subcategory[1],
                          total |-> g.sum]>>
                  ELSE <<>>
       IN heading \o sub \o ReportLines(Tail(rows), Some(g.category))

NoCall == [pc |-> "idle"]

\* the group query and the check for no rows (lines 167-194)
get_summary_groups(start_date, end_date, fail) ==
  /\ call = NoCall
  /\ UNCHANGED <<table, seq, returned>>
  /\ LET args == [start_date |-> start_date, end_date |-> end_date]
         M == {r \in Rows(table) : InRange(r, start_date, end_date)}
     IN \/ /\ fail
           /\ ret' = [op |-> "summary", kind |-> "error"]
           /\ UNCHANGED call
        \/ /\ ~fail
           /\ M = {}
           /\ ret' = [op |-> "summary", kind |-> "none", args |-> args]
           /\ UNCHANGED call
        \/ /\ ~fail
           /\ M # {}
           /\ \E rows \in GroupOrders(Groups(M)) :
                call' = [pc |-> "total", args |-> args, rows |-> rows,
                         seen |-> Len(table)]
           /\ ret' = [op |-> "summary", kind |-> "pending", args |-> args]

\* the total query and the report (lines 196-222)
get_summary_total(fail) ==
  /\ call # NoCall
  /\ call' = NoCall
  /\ UNCHANGED <<table, seq, returned>>
  /\ LET start_date == call.args.start_date
         end_date == call.args.end_date
         total_sum == SumAmount({r \in Rows(table) :
                                   InRange(r, start_date, end_date)})
     IN \/ /\ fail
           /\ ret' = [op |-> "summary", kind |-> "error"]
        \/ /\ ~fail
           /\ ret' = [op |-> "summary", kind |-> "report", args |-> call.args,
                      from |-> IF TruthyDate(start_date) THEN start_date
                               ELSE Some("Beginning"),
                      to |-> IF TruthyDate(end_date) THEN end_date
                             ELSE Some("Now"),
                      total |-> total_sum,
                      lines |-> ReportLines(call.rows, None),
                      groups |-> call.rows, seen |-> call.seen]

----------------------------------------------------------------------------
\* the resources and init_db

\* data/categories.json as the file may read: absent (load_categories_config
\* gives {}), or a mapping of category names to subcategory names
NoConfig == [c \in {} |-> {}]
Configs ==
  {NoConfig,
   [c \in {"Food", "Transport"} |->
      IF c = "Food" THEN {"Restaurant", "Grocery"} ELSE {}]}

RECURSIVE SortedCats(_)
SortedCats(S) ==
  IF S = {} THEN <<>>
  ELSE LET f == CHOOSE x \in S : \A y \in S : CatRank(x) <= CatRank(y)
       IN <<f>> \o SortedCats(S \ {f})

RECURSIVE SortedSubs(_)
SortedSubs(S) ==
  IF S = {} THEN <<>>
  ELSE LET f == CHOOSE x \in S : \A y \in S : SubRank(x) <= SubRank(y)
       IN <<f>> \o SortedSubs(S \ {f})

RECURSIVE HierarchyLines(_, _)
HierarchyLines(config, cats) ==
  IF cats = <<>> THEN <<>>
  ELSE LET cat == Head(cats)
           subs == SortedSubs(config[cat])
       IN <<[kind |-> "category", name |-> upper(cat)]>>
          \o (IF subs # <<>>
              THEN [i \in 1..Len(subs) |-> [kind |-> "sub", name |-> subs[i]]]
              ELSE <<[kind |-> "sub", name |-> "(No subcategories)"]>>)
          \o HierarchyLines(config, Tail(cats))

get_categories_and_subcategories(config) ==
  /\ UNCHANGED <<table, seq, call, returned>>
  /\ \/ /\ DOMAIN config = {}
        /\ ret' = [op |-> "categories", kind |-> "none"]
     \/ /\ DOMAIN config # {}
        /\ ret' = [op |-> "categories", kind |-> "ok",
                   lines |-> HierarchyLines(config, SortedCats(DOMAIN config))]

\* no try/except: a store error leaves the handler as an exception
get_resource_summary(fail) ==
  /\ UNCHANGED <<table, seq, call, returned>>
  /\ \/ /\ fail
        /\ ret' = [op |-> "lifetime", kind |-> "fault"]
     \/ /\ ~fail
        /\ ret' = [op |-> "lifetime", kind |-> "ok",
                   total |-> SumAmount(Rows(table))]

\* faulty variant: the table is created anew
CreateTableDropping(tbl) == <<>>
\* CREATE TABLE IF NOT EXISTS on a store that holds the table: the rows stay
CreateTableIfNotExists(tbl) == tbl

init_db ==
  /\ table' = CreateTableIfNotExists(table)
  /\ ret' = [op |-> "init", kind |-> "ok"]
  /\ UNCHANGED <<seq, call, returned>>

----------------------------------------------------------------------------
\* The server after main() has run init_db on a fresh store file, serving calls

\* The expenses callers add: (amount, category, subcategory, note)
Purchases ==
  {<<1, "Food", Some("Grocery"), None>>,
   <<2, "Food", Some("Grocery"), Some("market")>>,
   <<2, "Food", None, None>>,
   <<1, "Transport", None, Some("bus")>>}
BadAmounts == {-1, 0}
AddDates == {None, Some(EmptyDate), Some(1)}
Today == 2   \* datetime.now(), as a date
CategoryArgs == {None, Some(""), Some("Food")}
StartArgs == {None, Some(2)}
EndArgs == {None, Some(EmptyDate), Some(1)}
Limits == {-1, 0, 1, DefaultLimit}

Init ==
  /\ table = <<>>
  /\ seq = 0
  /\ ret = [op |-> "init", kind |-> "ok"]
  /\ call = NoCall
  /\ returned = <<>>

\* Calls arrive in any order.  get_summary runs its two queries in autocommit
\* mode, each a read transaction of its own, so another connection's insert
\* can commit between them.  One get_summary call at a time is followed through
\* that window; the reads of other callers change nothing and are left out of it.
Next ==
  \/ \E p \in Purchases, date \in AddDates, fail \in BOOLEAN :
       \E amount \in BadAmounts \cup {p[1]} :
         add_expense(amount, p[2], p[3], p[4], date, Today, fail)
  \/ /\ call = NoCall
     /\ \E category \in CategoryArgs, start_date \in StartArgs,
           end_date \in EndArgs, limit \in Limits, fail \in BOOLEAN :
          list_expenses(category, start_date, end_date, limit, fail)
  \/ \E start_date \in StartArgs, end_date \in EndArgs, fail \in BOOLEAN :
       get_summary_groups(start_date, end_date, fail)
  \/ \E fail \in BOOLEAN : get_summary_total(fail)
  \/ /\ call = NoCall
     /\ \E config \in Configs : get_categories_and_subcategories(config)
  \/ /\ call = NoCall
     /\ \E fail \in BOOLEAN : get_resource_summary(fail)
  \/ /\ call = NoCall
     /\ init_db

Spec == Init /\ [][Next]_vars

----------------------------------------------------------------------------
\* The server started on a store file an earlier run left in the temporary
\* directory: init_db keeps its rows, and AUTOINCREMENT goes on from its ids.

StoredTable(k, d) ==
  [i \in 1..k |-> [id |-> i, amount |-> 1, date |-> d, category |-> "Food",
                   subcategory |-> None, note |-> None]]

InitRestart ==
  /\ \E k \in 0..MaxStored, d \in Dates : table = StoredTable(k, d) /\ seq = k
  /\ ret = [op |-> "init", kind |-> "ok"]
  /\ call = NoCall
  /\ returned = <<>>

\* adds, each followed or not by list_expenses() with its defaults
NextRestart ==
  \/ \E date \in AddDates, fail \in BOOLEAN, amount \in {0, 1} :
       add_expense(amount, "Food", None, None, date, Today, fail)
  \/ \E fail \in BOOLEAN : list_expenses(None, None, None, DefaultLimit, fail)
  \/ init_db

SpecRestart == InitRestart /\ [][NextRestart]_vars

----------------------------------------------------------------------------
\* What the claims say, in terms of the results

\* a list_expenses / get_summary call that answered (no store error)
Listed == ret.op = "list" /\ ret.kind \in {"none", "table"}
ListedRows == IF ret.kind = "table" THEN ret.rows ELSE <<>>
Summarised == ret.op = "summary" /\ ret.kind \in {"none", "report"}

\* r satisfies every filter given as a non-empty string
SatisfiesFilters(r, a) ==
  /\ (a.category # None /\ a.category # Some("")) => r.category = a.category[1]
  /\ (a.start_date # None /\ a.start_date # Some(EmptyDate))
       => r.date >= a.start_date[1]
  /\ (a.end_date # None /\ a.end_date # Some(EmptyDate))
       => r.date <= a.end_date[1]

\* r satisfies every filter given at all (not None)
SatisfiesSupplied(r, a) ==
  /\ a.category # None => r.category = a.category[1]
  /\ a.start_date # None => r.date >= a.start_date[1]
  /\ a.end_date # None => r.date <= a.end_date[1]

\* r lies in the date range of a get_summary call
InDateRange(r, a) ==
  /\ (a.start_date # None /\ a.start_date # Some(EmptyDate))
       => r.date >= a.start_date[1]
  /\ (a.end_date # None /\ a.end_date # Some(EmptyDate))
       => r.date <= a.end_date[1]

\* date descending, then id descending
DescendingByDateThenId(rows) ==
  \A i, j \in DOMAIN rows : i < j =>
    \/ rows[i].date > rows[j].date
    \/ rows[i].date = rows[j].date /\ rows[i].id > rows[j].id

RECURSIVE SumOfGroups(_)
SumOfGroups(gs) == IF gs = <<>> THEN 0 ELSE Head(gs).sum + SumOfGroups(Tail(gs))

RECURSIVE Total(_)
Total(S) == IF S = {} THEN 0
            ELSE LET r == CHOOSE x \in S : TRUE IN r.amount + Total(S \ {r})

\* C1: an add_expense call with amount <= 0 returns an error result and leaves
\* the table with the rows it had.
C1_RejectedAddKeepsTable ==
  [][(ret'.op = "add" /\ ret'.amount <= 0)
       => (ret'.kind = "error" /\ table' = table)]_vars

C1_Witness ==
  ret.op = "add" /\ ret.amount <= 0 /\ ret.kind = "error" /\ Len(table) >= 1

\* C2: from an empty table, a successful add_expense returns the number of rows
\* the table holds right after the insert, and the ids successive successful
\* adds return are strictly increasing.
C2_IdIsRowCountAndIncreasing ==
  /\ (ret.op = "add" /\ ret.kind = "ok") => ret.id = Len(table)
  /\ \A i, j \in DOMAIN returned : i < j => returned[i] < returned[j]

C2_Witness ==
  ret.op = "add" /\ ret.kind = "ok" /\ Len(returned) >= 2 /\ ret.id = 2

\* C3: in a get_summary report every category of a matching record has exactly
\* one heading, whose total is the sum of the amounts of all matching records of
\* the category and whose entry count is their number.
C3_HeadingIsCategoryTotal ==
  (ret.op = "summary" /\ ret.kind = "report") =>
    LET M == {r \in Rows(SubSeq(table, 1, ret.seen)) : InDateRange(r, ret.args)}
    IN \A c \in {r.category : r \in M} :
         LET hs == {i \in DOMAIN ret.lines :
                      ret.lines[i].kind = "category"
                      /\ ret.lines[i].name = upper(c)}
             Mc == {r \in M : r.category = c}
         IN /\ Cardinality(hs) = 1
            /\ \A i \in hs : /\ ret.lines[i].total = Total(Mc)
                             /\ ret.lines[i].entries = Cardinality(Mc)

\* the record the last successful add_expense inserted
LastAdded == CHOOSE r \in Rows(table) : r.id = returned[Len(returned)]
DefaultList ==
  /\ Listed
  /\ ret.args = [category |-> None, start_date |-> None, end_date |-> None,
                 limit |-> DefaultLimit]
  /\ returned # <<>>
ListsLastAdded == \E i \in DOMAIN ListedRows : ListedRows[i].id = LastAdded.id

\* C4 as claimed: after a successful add_expense, whatever the table holds,
\* list_expenses() with no filters and the default limit returns the record.
C4_RoundTripAlways == DefaultList => ListsLastAdded

\* C4 as amended: it returns the record exactly when fewer than 20 (the default
\* limit) records of the table have a later date than the record's.
C4_RoundTripWithinLimit ==
  DefaultList =>
    (ListsLastAdded <=>
       Cardinality({r \in Rows(table) : r.date > LastAdded.date}) < DefaultLimit)

C4_Witness ==
  DefaultList /\ ListsLastAdded /\ Len(table) > DefaultLimit

\* C5 as claimed: list_expenses returns only records that satisfy every filter
\* supplied, by date descending and then id descending.
C5_OnlySuppliedFilters ==
  Listed =>
    /\ \A i \in DOMAIN ListedRows : SatisfiesSupplied(ListedRows[i], ret.args)
    /\ DescendingByDateThenId(ListedRows)

\* C5 as amended: list_expenses returns only records that satisfy every filter
\* supplied as a non-empty string (an empty string is no filter), by date
\* descending and then id descending.
C5_OnlyMatchingInOrder ==
  Listed =>
    /\ \A i \in DOMAIN ListedRows : SatisfiesFilters(ListedRows[i], ret.args)
    /\ DescendingByDateThenId(ListedRows)

C5_Witness ==
  /\ Listed
  /\ ret.args.start_date = Some(2)
  /\ Len(ListedRows) = 2
  /\ ListedRows[1].date = ListedRows[2].date
  /\ ListedRows[1].id > ListedRows[2].id

\* C6 as claimed: for every limit, negative ones included, a list_expenses
\* result holds at most limit records.
C6_AtMostLimit == (ret.op = "list" /\ ret.kind = "table") =>
                     Len(ret.rows) <= ret.args.limit

\* C6 as amended: for limit >= 0 the result holds at most limit records; a
\* negative limit is no limit, and every record matching the filters is listed.
C6_AtMostNonNegativeLimit ==
  Listed =>
    /\ ret.args.limit >= 0 => Len(ListedRows) <= ret.args.limit
    /\ ret.args.limit < 0 =>
         Len(ListedRows) =
           Cardinality({r \in Rows(table) : SatisfiesFilters(r, ret.args)})

C6_Witness ==
  /\ Listed
  /\ ret.args.limit = 1
  /\ Len(ListedRows) = 1
  /\ Cardinality({r \in Rows(table) : SatisfiesFilters(r, ret.args)}) = 2

\* C7: add_expense, list_expenses, get_summary and the lifetime summary read
\* answer a store failure with a textual error, never with a fault.
C7_NoFault ==
  ret.op \in {"add", "list", "summary", "lifetime"} => ret.kind # "fault"

\* C8: every record stays in the table as inserted; only a successful
\* add_expense changes the table, and it appends one record; list_expenses,
\* get_summary, the resource reads, init_db and a rejected add_expense leave it.
C8_RecordsImmutable ==
  [][/\ Len(table') >= Len(table)
     /\ SubSeq(table', 1, Len(table)) = table
     /\ table' # table =>
          /\ ret'.op = "add" /\ ret'.kind = "ok"
          /\ Len(table') = Len(table) + 1
     /\ (\/ ret'.op \in {"list", "summary", "categories", "lifetime", "init"}
         \/ ret'.op = "add" /\ ret'.kind = "error") => table' = table]_vars

C8_Witness == ret.op = "init" /\ Len(table) >= 2

\* C9 as claimed: list_expenses answers "no results" exactly when no record
\* satisfies the filters, get_summary "no data" exactly when no record lies in
\* the date range.
C9_NoneIffNoMatch ==
  /\ Listed =>
       (ret.kind = "none" <=>
          \A r \in Rows(table) : ~SatisfiesFilters(r, ret.args))
  /\ Summarised =>
       (ret.kind = "none" <=>
          \A r \in Rows(table) : ~InDateRange(r, ret.args))

\* C9 as amended: list_expenses answers "no results" exactly when no record
\* satisfies the filters or limit is 0; get_summary as claimed.
C9_NoneIffNoMatchOrZeroLimit ==
  /\ Listed =>
       (ret.kind = "none" <=>
          \/ \A r \in Rows(table) : ~SatisfiesFilters(r, ret.args)
          \/ ret.args.limit = 0)
  /\ Summarised =>
       (ret.kind = "none" <=>
          \A r \in Rows(table) : ~InDateRange(r, ret.args))

C9_Witness ==
  /\ Listed
  /\ ret.kind = "none"
  /\ ret.args.limit = 0
  /\ \E r \in Rows(table) : SatisfiesFilters(r, ret.args)

\* C10: the grand total of a get_summary report is the sum of the sums of the
\* (category, subcategory) groups it was built from, also when other callers'
\* add_expense calls run between its two queries.
C10_TotalIsSumOfGroups ==
  (ret.op = "summary" /\ ret.kind = "report") =>
    ret.total = SumOfGroups(ret.groups)

====
